---- MODULE Spec2Model ----
(***************************************************************************)
(* Beat-synchronised playback and mixing engine of recoupable/daw.         *)
(*                                                                         *)
(*   AudioMixer          usePlaybackControl.tsx, lines 347-621             *)
(*   useAudioMixer       part_008, lines 425-604                           *)
(*   useAudioBlockManager part_008, lines 11-405                           *)
(*   usePlaybackControl  usePlaybackControl.tsx, lines 14-318              *)
(*                                                                         *)
(* Units: gains in hundredths (80 = 0.8), the bus gain in thousandths,     *)
(* seconds of fade in hundredths, beats in hundredths of a beat, elapsed   *)
(* wall-clock time in ms, observed in steps of 500 ms (a beat at 120 bpm). *)
(***************************************************************************)
EXTENDS Integers, Sequences, FiniteSets, TLC

\* ------------------------------------------------------------------ bounds
\* Source objects alive at one time in the whole program (MaxVoices) and in
\* the runs of the AudioMixer class on its own (MaxMixerSources).
MaxVoices == 2
MaxMixerSources == 2
\* Clean-up timers pending at one time.
MaxTimers == 2
\* playAudioBlock calls waiting for the audio context at one time.
MaxWaiting == 2
\* Time played since the anchor, and the most time between two interval
\* callbacks the model shows (in steps of TimeUnit).
MaxElapsed == 3
MaxStep == 2
\* Status requests of one generation task awaiting their response at one time.
MaxFetches == 2

\* ------------------------------------------------------------ input domains
Ids == {"b1", "b2"}
GainValues == {125}
PanValues == {100}
FadeInValues == {0, 1}
VolumeValues == {50, 150}
BpmInputs == {60, 500}
SeekBeats == {200}

\* ------------------------------------------------------- program constants
DefaultGain == 80
DefaultFadeIn == 1
InitialMasterGain == 90
InitialBusGain == 1000
InitialBpm == 120
MIN_BPM == 20
MAX_BPM == 300
MAX_POLLS == 30
\* Wall-clock time is observed in steps of TimeUnit milliseconds.
TimeUnit == 500

VARIABLES
    mixer,              \* the AudioMixer of useAudioBlockManager (mixerRef.current)
    audioBlocks,        \* useAudioBlockManager state: the blocks, in array order
    created,            \* block ids handed out so far (`block-${Date.now()}`)
    playingBlocksRef,   \* JS Set of block ids, in insertion order
    audioPlayersRef,    \* block id -> state of its preloaded Tone.Player
    audioContext,       \* Tone.context.state
    waiting,            \* playAudioBlock calls suspended in `await Tone.start()`
    isPlaying,          \* usePlaybackControl state
    currentBeat,        \* usePlaybackControl state, hundredths of a beat
    elapsedTime,        \* performance.now() - startTimeRef.current in ms,
                        \* Null while startTimeRef.current is null
    intervalRef,        \* the backup interval is scheduled
    tickBlocks,         \* audioBlocks as closed over by the scheduled interval
    removedWhilePlaying, \* history: blocks removed while in playingBlocksRef
    bpm,                \* usePlaybackControl state
    tickBpm,            \* bpm as closed over by the scheduled interval
    useBpm,             \* useBPM state of StudioClient (and bpmRef)
    providerBpm,        \* useBPM state of BPMProvider (and bpmRef)
    transportBpm,       \* Tone.Transport.bpm.value
    requestedBpm,       \* history: the tempo asked for, clamped, since playback
                        \* last started; 0 if none
    lastOp,             \* history: the last operation on the clock
    clock,              \* usePlaybackControl: the timers it has scheduled
                        \* (backup intervals, animation frames), what
                        \* animationFrameRef holds, whether it is mounted
    polling             \* startPolling: the generation task on the server,
                        \* whether the polling interval is scheduled,
                        \* pollingCount, the status requests in flight, and
                        \* (history) the blocks the task has added

vars ==
    <<mixer, audioBlocks, created, playingBlocksRef, audioPlayersRef,
      audioContext, waiting, isPlaying, currentBeat, elapsedTime, intervalRef,
      tickBlocks, removedWhilePlaying, bpm, tickBpm, useBpm, providerBpm,
      transportBpm, requestedBpm, lastOp, clock, polling>>

tempoVars == <<bpm, useBpm, providerBpm, transportBpm>>

clockVars ==
    <<bpm, tickBpm, useBpm, providerBpm, transportBpm, requestedBpm, lastOp,
      clock>>

hookVars ==
    <<audioBlocks, created, playingBlocksRef, audioPlayersRef, audioContext,
      waiting, isPlaying, currentBeat, elapsedTime, intervalRef, tickBlocks,
      removedWhilePlaying, bpm, tickBpm, useBpm, providerBpm, transportBpm,
      requestedBpm, lastOp, clock, polling>>

Null == 0 - 1

\* ------------------------------------------------------------ JS Map helpers
\* activeSources is a JS Map: a sequence of [id, v] entries in insertion order.
MapHas(map, id) == \E i \in 1..Len(map) : map[i].id = id

MapGet(map, id) ==
    IF MapHas(map, id)
    THEN (CHOOSE e \in {map[i] : i \in 1..Len(map)} : e.id = id).v
    ELSE 0

MapSet(map, id, v) ==
    IF MapHas(map, id)
    THEN [i \in 1..Len(map) |-> IF map[i].id = id THEN [id |-> id, v |-> v] ELSE map[i]]
    ELSE Append(map, [id |-> id, v |-> v])

MapDelete(map, id) == SelectSeq(map, LAMBDA e : e.id # id)

MapValues(map) == {map[i].v : i \in 1..Len(map)}

MapKeys(map) == [i \in 1..Len(map) |-> map[i].id]

\* ---------------------------------------------------------------- AudioMixer
\* new AudioMixer(): limiter, master gain 0.9, bus gain 1, no sources, unmuted.
InitMixer ==
    [activeSources |-> <<>>,
     voices |-> <<>>,
     timers |-> <<>>,
     muted |-> FALSE,
     mixingBus |-> InitialBusGain,
     masterOutput |-> InitialMasterGain]

\* 1 / (1 + ln(count) * 0.25) in thousandths, 1 for count <= 1.
MixingGainTarget(count) ==
    CASE count <= 1 -> 1000
      [] count = 2 -> 852
      [] count = 3 -> 785
      [] count = 4 -> 743
      [] OTHER -> 713

_updateMixingGain(m) ==
    [m EXCEPT !.mixingBus = MixingGainTarget(Len(m.activeSources))]

anySolo(m) == \E v \in MapValues(m.activeSources) : m.voices[v].solo

\* The gain _updateSourceGain ramps source v to.
targetGain(m, v) ==
    LET shouldBeMuted ==
            m.muted \/ m.voices[v].mute \/ (anySolo(m) /\ ~m.voices[v].solo)
    IN  IF shouldBeMuted THEN 0 ELSE m.voices[v].gain

_updateSourceGain(m, v) ==
    [m EXCEPT !.voices[v].target = targetGain(m, v)]

_updateAllSourceGains(m) ==
    [m EXCEPT !.voices =
        [v \in 1..Len(m.voices) |->
            IF v \in MapValues(m.activeSources)
            THEN [m.voices[v] EXCEPT !.target = targetGain(m, v)]
            ELSE m.voices[v]]]

\* An addSource that recomputes the bus gain before it puts the source in the
\* map, so that the gain does not count the new source.
addSourceGainFirst(m, id, shared, play, opts) ==
    LET v == Len(m.voices) + 1
        counted == _updateMixingGain(m)
        source ==
            [id |-> id,
             gain |-> opts.gain,
             pan |-> opts.pan,
             mute |-> opts.mute,
             solo |-> opts.solo,
             target |-> IF opts.fadeIn > 0 \/ ~m.muted THEN opts.gain ELSE 0,
             srcConn |-> TRUE,
             busConn |-> TRUE,
             play |-> play,
             shared |-> shared,
             cancelled |-> FALSE]
    IN  [counted EXCEPT !.voices = Append(@, source),
                        !.activeSources = MapSet(@, id, v)]

\* addSource(id, sourceNode, options).  shared: sourceNode is the block's
\* preloaded Tone.Player (one node feeding every source made from it);
\* play: the node's play state.  The fade-in ramp, when fadeIn > 0, replaces
\* the gain the node was constructed with.
addSource(m, id, shared, play, opts) ==
    LET v == Len(m.voices) + 1
        constructed == IF m.muted THEN 0 ELSE opts.gain
        source ==
            [id |-> id,
             gain |-> opts.gain,
             pan |-> opts.pan,
             mute |-> opts.mute,
             solo |-> opts.solo,
             target |-> IF opts.fadeIn > 0 THEN opts.gain ELSE constructed,
             srcConn |-> TRUE,
             busConn |-> TRUE,
             play |-> play,
             shared |-> shared,
             cancelled |-> FALSE]
    IN  _updateMixingGain(
            [m EXCEPT !.voices = Append(@, source),
                      !.activeSources = MapSet(@, id, v)])

\* removeSource(id): ramp to 0 and schedule the clean-up (every caller of this
\* repository uses fadeOut 0.01, so all clean-ups have the same delay and run
\* in the order they were scheduled).
removeSource(m, id) ==
    LET v == MapGet(m.activeSources, id)
    IN  IF v = 0
        THEN m
        ELSE [m EXCEPT !.voices[v].target = 0,
                       !.timers = Append(@, v)]

\* Source objects that are disposed and that no pending clean-up refers to are
\* unreachable: they are dropped and the remaining ones renumbered.
compact(m) ==
    LET n == Len(m.voices)
        pending == {m.timers[i] : i \in 1..Len(m.timers)}
        dead == {w \in 1..n : m.voices[w].play = "disposed" /\ w \notin pending}
        renum(w) == w - Cardinality({d \in dead : d < w})
        kept == SelectSeq([w \in 1..n |-> w], LAMBDA w : w \notin dead)
    IN  [m EXCEPT !.voices = [i \in 1..Len(kept) |-> m.voices[kept[i]]],
                  !.activeSources =
                      [i \in 1..Len(@) |-> [id |-> @[i].id, v |-> renum(@[i].v)]],
                  !.timers = [i \in 1..Len(@) |-> renum(@[i])]]

\* A clean-up that recomputes the bus gain before it deletes the map entry,
\* so that the gain still counts the source being removed.
cleanupSourceGainFirst(m, v) ==
    LET id == m.voices[v].id
        counted == _updateMixingGain(m)
        cut(w) ==
            \/ w = v
            \/ /\ m.voices[v].shared
               /\ m.voices[w].shared
               /\ m.voices[w].id = id
        voices2 ==
            [w \in 1..Len(m.voices) |->
                IF w = v
                THEN [m.voices[w] EXCEPT !.srcConn = FALSE, !.busConn = FALSE,
                                         !.gain = 0, !.pan = 0, !.mute = FALSE,
                                         !.solo = FALSE, !.target = 0,
                                         !.play = "disposed",
                                         !.cancelled = FALSE]
                ELSE IF cut(w)
                THEN [m.voices[w] EXCEPT !.srcConn = FALSE]
                ELSE m.voices[w]]
    IN  compact([counted EXCEPT !.voices = voices2,
                                !.activeSources = MapDelete(@, id)])

\* The setTimeout callback of removeSource for source v, closed over its id:
\* disconnect the node (from everything it feeds), the gain and the panner,
\* delete the map entry of the id, recompute the bus gain.
cleanupSource(m, v) ==
    LET id == m.voices[v].id
        cut(w) ==
            \/ w = v
            \/ /\ m.voices[v].shared
               /\ m.voices[w].shared
               /\ m.voices[w].id = id
        voices2 ==
            [w \in 1..Len(m.voices) |->
                IF w = v
                THEN [m.voices[w] EXCEPT !.srcConn = FALSE, !.busConn = FALSE,
                                         !.gain = 0, !.pan = 0, !.mute = FALSE,
                                         !.solo = FALSE, !.target = 0,
                                         !.play = "disposed",
                                         !.cancelled = FALSE]
                ELSE IF cut(w)
                THEN [m.voices[w] EXCEPT !.srcConn = FALSE]
                ELSE m.voices[w]]
    IN  compact(_updateMixingGain(
            [m EXCEPT !.voices = voices2,
                      !.activeSources = MapDelete(@, id)]))

runTimer(m) ==
    cleanupSource([m EXCEPT !.timers = Tail(@)], Head(m.timers))

setSourceGain(m, id, gain) ==
    LET v == MapGet(m.activeSources, id)
    IN  IF v = 0
        THEN m
        ELSE IF m.muted
        THEN [m EXCEPT !.voices[v].gain = gain]
        ELSE [m EXCEPT !.voices[v].gain = gain, !.voices[v].target = gain]

setSourcePan(m, id, pan) ==
    LET v == MapGet(m.activeSources, id)
    IN  IF v = 0 THEN m ELSE [m EXCEPT !.voices[v].pan = pan]

setSourceMute(m, id, muted) ==
    LET v == MapGet(m.activeSources, id)
    IN  IF v = 0
        THEN m
        ELSE _updateSourceGain([m EXCEPT !.voices[v].mute = muted], v)

setSourceSolo(m, id, solo) ==
    LET v == MapGet(m.activeSources, id)
    IN  IF v = 0
        THEN m
        ELSE _updateAllSourceGains([m EXCEPT !.voices[v].solo = solo])

setMasterVolume(m, volume) ==
    [m EXCEPT !.masterOutput =
        IF volume < 0 THEN 0 ELSE IF volume > 100 THEN 100 ELSE volume]

setMute(m, muted) == _updateAllSourceGains([m EXCEPT !.muted = muted])

RECURSIVE removeAll(_, _)
removeAll(m, ids) ==
    IF ids = <<>> THEN m ELSE removeAll(removeSource(m, Head(ids)), Tail(ids))

clearAllSources(m) == removeAll(m, MapKeys(m.activeSources))

\* ------------------------------------------------------------- JS Set helpers
\* playingBlocksRef is a JS Set: a duplicate-free sequence in insertion order.
SetHas(set, x) == \E i \in 1..Len(set) : set[i] = x

SetAdd(set, x) == IF SetHas(set, x) THEN set ELSE Append(set, x)

SetDelete(set, x) == SelectSeq(set, LAMBDA y : y # x)

\* ------------------------------------------------------------------- blocks
\* The AudioBlock created for an id (StudioClient, startPolling): start and
\* duration in hundredths of a beat, each block on a track of its own.
Block(id) ==
    [id |-> id,
     trackId |-> IF id = "b1" THEN "t1" ELSE "t2",
     start |-> 100,
     duration |-> IF id = "b1" THEN 100 ELSE 200,
     audioUrl |-> TRUE]

Tracks == {Block(id).trackId : id \in Ids}

find(blocks, id) == {blocks[i] : i \in {j \in 1..Len(blocks) : blocks[j].id = id}}

blockIds(blocks) == {blocks[i].id : i \in 1..Len(blocks)}

inRange(block, beat) ==
    beat >= block.start /\ beat < block.start + block.duration

\* ------------------------------------------------------ useAudioBlockManager
\* The part of the hook's state its callbacks change, as one value: the mixer,
\* playingBlocksRef, the calls waiting for the audio context and the microtask
\* queue (continuations of playAudioBlock calls, run to completion before the
\* next event is handled).  log is history: the stopAudioBlock and
\* playAudioBlock calls checkBlocksForPlayback made, in the order it made them.
Engine ==
    [mixer |-> mixer,
     playing |-> playingBlocksRef,
     waiting |-> waiting,
     micro |-> <<>>,
     log |-> <<>>]

Command(cmd, id) == [cmd |-> cmd, id |-> id]

PlayOptions ==
    [gain |-> DefaultGain, pan |-> 0, fadeIn |-> DefaultFadeIn,
     solo |-> FALSE, mute |-> FALSE]

\* stopAudioBlock(blockId).  A call for the block still waiting for the audio
\* context, or a source of the block still loading, is marked as stopped
\* before it started (history only).
stopAudioBlock(e, id) ==
    LET m == removeSource(e.mixer, id)
        v == MapGet(e.mixer.activeSources, id)
        marked ==
            IF v # 0 /\ e.mixer.voices[v].play = "loading"
            THEN [m EXCEPT !.voices[v].cancelled = TRUE]
            ELSE m
    IN  [e EXCEPT !.mixer = marked,
                  !.playing = SetDelete(@, id),
                  !.waiting =
                      [i \in 1..Len(@) |->
                          IF @[i].id = id THEN [@[i] EXCEPT !.stopped = TRUE]
                          ELSE @[i]]]

\* playAudioBlock(blockId) up to its first await.  blocks is the audioBlocks
\* array the callback was created with; the block looked up after the await
\* comes from it.
playAudioBlock(e, id, blocks, context) ==
    LET block == find(blocks, id)
        call ==
            [id |-> id,
             found |-> block # {},
             url |-> \E b \in block : b.audioUrl,
             pc |-> "context",
             stopped |-> FALSE]
    IN  IF context = "running"
        THEN [e EXCEPT !.micro = Append(@, call)]
        ELSE [e EXCEPT !.waiting = Append(@, call)]

\* playAudioBlock after `await ensureAudioContext()` answered true.
afterContext(e, call, players) ==
    IF ~call.found THEN e
    ELSE IF SetHas(e.playing, call.id) THEN e
    ELSE IF players[call.id] = "loaded"
    THEN LET m == addSource(e.mixer, call.id, TRUE, "started", PlayOptions)
         IN  [e EXCEPT !.mixer =
                           [m EXCEPT !.voices[Len(m.voices)].cancelled = call.stopped],
                       !.playing = SetAdd(@, call.id)]
    ELSE IF call.url
    THEN \* playAudioFile: a new player, added to the mixer, started once loaded
         LET m == addSource(e.mixer, call.id, FALSE, "loading", PlayOptions)
         IN  [e EXCEPT !.mixer =
                           [m EXCEPT !.voices[Len(m.voices)].cancelled = call.stopped],
                       !.micro = Append(@, [call EXCEPT !.pc = "file"])]
    ELSE e

\* playAudioBlock after `await playAudioFile(...)`.
afterFile(e, call) == [e EXCEPT !.playing = SetAdd(@, call.id)]

RECURSIVE runMicrotasks(_, _)
runMicrotasks(e, players) ==
    IF e.micro = <<>>
    THEN e
    ELSE LET call == Head(e.micro)
             rest == [e EXCEPT !.micro = Tail(@)]
         IN  runMicrotasks(
                 IF call.pc = "context"
                 THEN afterContext(rest, call, players)
                 ELSE afterFile(rest, call),
                 players)

RECURSIVE stopPass(_, _, _, _)
stopPass(e, currentlyPlaying, blocks, beat) ==
    IF currentlyPlaying = <<>>
    THEN e
    ELSE LET id == Head(currentlyPlaying)
             block == find(blocks, id)
             stop == block = {} \/ \E b \in block : ~inRange(b, beat)
         IN  stopPass(IF stop
                      THEN [stopAudioBlock(e, id) EXCEPT
                               !.log = Append(@, Command("stop", id))]
                      ELSE e,
                      Tail(currentlyPlaying), blocks, beat)

RECURSIVE startPass(_, _, _, _, _)
startPass(e, todo, blocks, beat, context) ==
    IF todo = <<>>
    THEN e
    ELSE LET block == Head(todo)
             start == inRange(block, beat) /\ ~SetHas(e.playing, block.id)
         IN  startPass(
                 IF start
                 THEN [playAudioBlock(e, block.id, blocks, context) EXCEPT
                          !.log = Append(@, Command("start", block.id))]
                 ELSE e,
                 Tail(todo), blocks, beat, context)

\* A tick that goes through the blocks to start before it goes through the
\* playing blocks to stop.
checkBlocksForPlaybackStartsFirst(e, blocks, beat, prevBeat, context) ==
    LET started == startPass(e, blocks, blocks, beat, context)
    IN  stopPass(started, e.playing, blocks, beat)

\* checkBlocksForPlayback(currentBeat, prevBeat) of the render whose
\* audioBlocks is blocks.  prevBeat only chooses a log line.
checkBlocksForPlayback(e, blocks, beat, prevBeat, context) ==
    startPass(stopPass(e, e.playing, blocks, beat), blocks, blocks, beat, context)

\* player.dispose() of the preloaded player of a block: it feeds nothing any
\* more.
disposePlayer(m, id) ==
    [m EXCEPT !.voices =
        [w \in 1..Len(m.voices) |->
            IF m.voices[w].shared /\ m.voices[w].id = id
            THEN [m.voices[w] EXCEPT !.srcConn = FALSE, !.shared = FALSE]
            ELSE m.voices[w]]]

removeAudioBlock(e, id) ==
    LET stopped == stopAudioBlock(e, id)
    IN  [stopped EXCEPT !.mixer = disposePlayer(@, id)]

RECURSIVE removeBlocks(_, _)
removeBlocks(e, blocks) ==
    IF blocks = <<>>
    THEN e
    ELSE removeBlocks(removeAudioBlock(e, Head(blocks).id), Tail(blocks))

\* elapsed time (ms) to hundredths of a beat: (elapsed / 1000) * (bpm / 60)
totalBeats(elapsed, beatsPerMinute) == (elapsed * beatsPerMinute) \div 600

Op(op, arg) == [op |-> op, arg |-> arg]

\* Math.max(20, Math.min(300, newBpm))
clampBpm(newBpm) ==
    LET least == IF newBpm < MAX_BPM THEN newBpm ELSE MAX_BPM
    IN  IF least > MIN_BPM THEN least ELSE MIN_BPM

\* changeBpm while playing: the elapsed time that gives, at the new tempo, the
\* beat position the elapsed time so far gives at the old one.
newElapsed(elapsed, oldBpm, validBpm) == (elapsed * oldBpm) \div validBpm

\* ------------------------------------------------------ the useBPM instances
\* A mounted useBPM instance between two events: its bpm state, bpmRef.current
\* (the effect has copied the state into it), and the events its listener has
\* dispatched while handling one.
Instance(value) == [bpm |-> value, ref |-> value, out |-> <<>>]

\* The two mounted instances: StudioClient's and BPMProvider's.
Instances == [studio |-> Instance(useBpm), provider |-> Instance(providerBpm)]

\* A listener that answers a new tempo by calling setBpm, which dispatches the
\* event again.
handleExternalBPMChangeAgain(inst, newBpm) ==
    IF newBpm # inst.ref
    THEN [inst EXCEPT !.bpm = newBpm, !.ref = newBpm, !.out = Append(@, newBpm)]
    ELSE inst

\* handleExternalBPMChange(event) of an instance: setBpmState if the value
\* differs from bpmRef.current; nothing is dispatched.
handleExternalBPMChange(inst, newBpm) ==
    IF newBpm # inst.ref
    THEN [inst EXCEPT !.bpm = newBpm]
    ELSE inst

\* window.dispatchEvent for each queued event in turn: every listener handles
\* it, the events the listeners dispatch are queued.  events counts the
\* events dispatched.
RECURSIVE dispatchEvents(_, _, _)
dispatchEvents(insts, queue, events) ==
    IF queue = <<>>
    THEN [insts |-> insts, events |-> events]
    ELSE LET st == handleExternalBPMChange(insts.studio, Head(queue))
             pr == handleExternalBPMChange(insts.provider, Head(queue))
         IN  dispatchEvents(
                 [studio |-> [st EXCEPT !.out = <<>>],
                  provider |-> [pr EXCEPT !.out = <<>>]],
                 Tail(queue) \o st.out \o pr.out,
                 events + 1)

\* setBpm(newBpm) of the instance who: clamp, set the state and the ref,
\* dispatch the event.
setBpm(insts, who, newBpm) ==
    LET validBpm == clampBpm(newBpm)
        own == [insts EXCEPT ![who] = Instance(validBpm)]
    IN  dispatchEvents(own, <<validBpm>>, 0)

\* ------------------------------------------------------ the generation task
\* No generation task has been started.
InitPolling ==
    [task |-> "none", interval |-> FALSE, pollingCount |-> 0, fetches |-> 0,
     added |-> 0]

\* The outcomes of one status request: the fetch throws or is not ok, or
\* data.status is the status of the task, with or without an audio URL.
Responses(task) ==
    {[status |-> "error", url |-> FALSE]}
        \cup {[status |-> task, url |-> u] : u \in BOOLEAN}

\* The status ends the polling: clearInterval(interval).
ends(status) == status \in {"completed", "failed", "error"}

\* -------------------------------------------------- the timers of the clock
\* After mount: nothing scheduled, animationFrameRef.current null.
InitClock ==
    [intervals |-> 0, frames |-> 0, animationFrameRef |-> "null",
     mounted |-> TRUE]

\* cancelAnimationFrame(animationFrameRef.current): the frame the ref names
\* is dropped if it has not run yet.
cancelFrame(c) ==
    [c EXCEPT !.frames = IF c.animationFrameRef = "pending" THEN @ - 1 ELSE @]

\* clearInterval(intervalRef.current) when the ref is set.
clearBackup(c, ref) ==
    [c EXCEPT !.intervals = IF ref /\ @ > 0 THEN @ - 1 ELSE @]

\* togglePlayback, start: cancel the frame and the interval the refs hold,
\* request a frame, set the interval.
startTimers(c, ref) ==
    LET cleared == clearBackup(cancelFrame(c), ref)
    IN  [cleared EXCEPT !.frames = @ + 1,
                        !.animationFrameRef = "pending",
                        !.intervals = @ + 1]

\* A pause that cancels the frame and leaves the interval running.
stopTimersKeepsInterval(c, ref) ==
    [cancelFrame(c) EXCEPT !.animationFrameRef = "null"]

\* togglePlayback, pause, and stopPlayback: cancel the frame and the interval
\* the refs hold, reset the refs.
stopTimers(c, ref) ==
    [clearBackup(cancelFrame(c), ref) EXCEPT !.animationFrameRef = "null"]

\* The clean-up of the unmount effect: cancel both, the refs keep their ids.
unmountTimers(c, ref) ==
    [clearBackup(cancelFrame(c), ref) EXCEPT
        !.animationFrameRef = IF @ = "null" THEN "null" ELSE "fired",
        !.mounted = FALSE]

\* ---------------------------------------------------------------- the program
Commit(e) ==
    /\ Len(e.mixer.voices) <= MaxVoices
    /\ Len(e.mixer.timers) <= MaxTimers
    /\ Len(e.waiting) <= MaxWaiting
    /\ mixer' = e.mixer
    /\ playingBlocksRef' = e.playing
    /\ waiting' = e.waiting

\* Tone.start() resolves: every suspended playAudioBlock call continues.
ContextStarted ==
    /\ audioContext = "suspended"
    /\ audioContext' = "running"
    /\ Commit(runMicrotasks([Engine EXCEPT !.micro = waiting, !.waiting = <<>>],
                            audioPlayersRef))
    /\ UNCHANGED <<audioBlocks, created, audioPlayersRef, isPlaying, currentBeat,
                   elapsedTime, intervalRef, tickBlocks, removedWhilePlaying>>
    /\ UNCHANGED <<clockVars, polling>>

\* Tone.start() rejects: initializeAudioContext answers false and every
\* suspended call returns.
ContextFailed ==
    /\ audioContext = "suspended"
    /\ waiting # <<>>
    /\ waiting' = <<>>
    /\ UNCHANGED <<mixer, audioBlocks, created, playingBlocksRef, audioPlayersRef,
                   audioContext, isPlaying, currentBeat, elapsedTime, intervalRef,
                   tickBlocks, removedWhilePlaying>>
    /\ UNCHANGED <<clockVars, polling>>

\* addAudioBlock(block): append, and preload its audio.
AddAudioBlock ==
    \E id \in Ids \ created :
        /\ created' = created \cup {id}
        /\ audioBlocks' = Append(audioBlocks, Block(id))
        /\ audioPlayersRef' =
               IF Block(id).audioUrl /\ audioPlayersRef[id] = "none"
               THEN [audioPlayersRef EXCEPT ![id] = "loading"]
               ELSE audioPlayersRef
        /\ UNCHANGED <<mixer, playingBlocksRef, audioContext, waiting, isPlaying,
                       currentBeat, elapsedTime, intervalRef, tickBlocks,
                       removedWhilePlaying>>
        /\ UNCHANGED <<clockVars, polling>>

\* The preloaded player of a block finishes loading (one that fails never does).
PreloadDone ==
    \E id \in Ids :
        /\ audioPlayersRef[id] = "loading"
        /\ audioPlayersRef' = [audioPlayersRef EXCEPT ![id] = "loaded"]
        /\ UNCHANGED <<mixer, audioBlocks, created, playingBlocksRef, audioContext,
                       waiting, isPlaying, currentBeat, elapsedTime, intervalRef,
                       tickBlocks, removedWhilePlaying>>
        /\ UNCHANGED <<clockVars, polling>>

\* Deleting a track: removeTrackBlocks(trackId), removeAudioBlock for each of
\* its blocks.
RemoveTrackBlocks ==
    \E t \in Tracks :
        LET blocksToRemove == SelectSeq(audioBlocks, LAMBDA b : b.trackId = t)
            gone == blockIds(blocksToRemove)
        IN  /\ blocksToRemove # <<>>
            /\ Commit(removeBlocks(Engine, blocksToRemove))
            /\ audioPlayersRef' =
                   [id \in Ids |-> IF id \in gone THEN "none" ELSE audioPlayersRef[id]]
            /\ audioBlocks' = SelectSeq(audioBlocks, LAMBDA b : b.id \notin gone)
            /\ removedWhilePlaying' =
                   removedWhilePlaying \cup
                       {id \in gone : SetHas(playingBlocksRef, id)}
            /\ UNCHANGED <<created, audioContext, isPlaying, currentBeat,
                           elapsedTime, intervalRef, tickBlocks>>
            /\ UNCHANGED <<clockVars, polling>>

\* A click on a block of the track list: playAudioBlock of the current render.
PlayAudioBlock ==
    \E id \in blockIds(audioBlocks) :
        /\ Commit(runMicrotasks(
               playAudioBlock(Engine, id, audioBlocks, audioContext),
               audioPlayersRef))
        /\ UNCHANGED <<audioBlocks, created, audioPlayersRef, audioContext,
                       isPlaying, currentBeat, elapsedTime, intervalRef,
                       tickBlocks, removedWhilePlaying>>
        /\ UNCHANGED <<clockVars, polling>>

\* updateAudioBlock(id, {audioUrl}): the block is replaced in the list (of a
\* url the model keeps only that it is there), the preloaded player of the
\* block is disposed and dropped, and a new one is preloaded if the block is
\* in the list.  Neither the mixer nor playingBlocksRef is told.
updateAudioBlock(m, players, blocks, id) ==
    [mixer |-> IF players[id] # "none" THEN disposePlayer(m, id) ELSE m,
     players |-> [players EXCEPT
                     ![id] = IF \E b \in find(blocks, id) : b.audioUrl
                             THEN "loading"
                             ELSE "none"]]

UpdateAudioBlock ==
    \E id \in Ids :
        LET u == updateAudioBlock(mixer, audioPlayersRef, audioBlocks, id)
        IN  /\ mixer' = u.mixer
            /\ audioPlayersRef' = u.players
            /\ UNCHANGED <<audioBlocks, created, playingBlocksRef, audioContext,
                           waiting, isPlaying, currentBeat, elapsedTime,
                           intervalRef, tickBlocks, removedWhilePlaying>>
            /\ UNCHANGED <<clockVars, polling>>

\* A load that starts the player only while the map still holds its source,
\* and gives the player up otherwise.
loadDoneIfCurrent(m, v) ==
    IF MapGet(m.activeSources, m.voices[v].id) = v
    THEN [m EXCEPT !.voices[v].play = "started"]
    ELSE [m EXCEPT !.voices[v].play = "failed"]

\* player.load(url) of the player of source v resolves: player.start().
loadDone(m, v) == [m EXCEPT !.voices[v].play = "started"]

\* A failure that also removes every source from the mixer.
loadFailedClearsAll(m, v) ==
    clearAllSources([m EXCEPT !.voices[v].play = "failed"])

\* player.load(url) of the player of source v rejects: nothing handles the
\* rejection, the player never starts.
loadFailed(m, v) == [m EXCEPT !.voices[v].play = "failed"]

\* The player playAudioFile created for source v finishes loading and starts.
LoadDone ==
    \E v \in 1..Len(mixer.voices) :
        /\ mixer.voices[v].play = "loading"
        /\ mixer' = loadDone(mixer, v)
        /\ UNCHANGED hookVars

\* The player playAudioFile created for source v fails to load.
LoadFailed ==
    \E v \in 1..Len(mixer.voices) :
        /\ mixer.voices[v].play = "loading"
        /\ mixer' = loadFailed(mixer, v)
        /\ UNCHANGED hookVars

\* The clean-up scheduled first by removeSource runs.
RunTimer ==
    /\ mixer.timers # <<>>
    /\ mixer' = runTimer(mixer)
    /\ UNCHANGED hookVars

\* togglePlayback(), reached through debugTogglePlayback once the audio
\* context runs.  The interval scheduled on start closes over the render's
\* onBeatUpdate, hence over its audioBlocks.
TogglePlayback ==
    /\ audioContext = "running"
    /\ clock.mounted
    /\ isPlaying' = ~isPlaying
    /\ IF ~isPlaying
       THEN /\ elapsedTime' = 0
            /\ clock' = startTimers(clock, intervalRef)
            /\ intervalRef' = TRUE
            /\ tickBlocks' = audioBlocks
            /\ tickBpm' = bpm
            /\ lastOp' = Op("play", 0)
       ELSE /\ elapsedTime' = Null
            /\ clock' = stopTimers(clock, intervalRef)
            /\ intervalRef' = FALSE
            /\ tickBlocks' = <<>>
            /\ tickBpm' = bpm
            /\ lastOp' = Op("pause", 0)
    /\ requestedBpm' = 0
    /\ UNCHANGED <<polling, mixer, audioBlocks, created, playingBlocksRef, audioPlayersRef,
                   audioContext, waiting, currentBeat, removedWhilePlaying>>
    /\ UNCHANGED tempoVars

\* stopPlayback(), reached through debugStopPlayback.
StopPlayback ==
    /\ audioContext = "running"
    /\ clock.mounted
    /\ isPlaying' = FALSE
    /\ currentBeat' = 0
    /\ elapsedTime' = Null
    /\ clock' = stopTimers(clock, intervalRef)
    /\ intervalRef' = FALSE
    /\ tickBlocks' = <<>>
    /\ tickBpm' = bpm
    /\ lastOp' = Op("stop", 0)
    /\ requestedBpm' = 0
    /\ UNCHANGED <<polling, mixer, audioBlocks, created, playingBlocksRef, audioPlayersRef,
                   audioContext, waiting, removedWhilePlaying>>
    /\ UNCHANGED tempoVars

\* The backup interval fires, d time units after the previous event.
Tick ==
    \E d \in 0..MaxStep :
        /\ clock.intervals > 0
        /\ elapsedTime # Null
        /\ elapsedTime + d * TimeUnit <= MaxElapsed * TimeUnit
        /\ elapsedTime' = elapsedTime + d * TimeUnit
        /\ lastOp' = Op("tick", 0)
        /\ LET beat == totalBeats(elapsedTime', tickBpm)
           IN  /\ currentBeat' = beat
               /\ Commit(runMicrotasks(
                      checkBlocksForPlayback(Engine, tickBlocks, beat, beat - 1,
                                             audioContext),
                      audioPlayersRef))
        /\ UNCHANGED <<polling, audioBlocks, created, audioPlayersRef, audioContext,
                       isPlaying, intervalRef, tickBlocks,
                       removedWhilePlaying, tickBpm, requestedBpm, clock>>
        /\ UNCHANGED tempoVars

\* changeBpm(newBpm) of usePlaybackControl.  The event it dispatches reaches
\* the useBPM instance of StudioClient.
ChangeBpm ==
    \E newBpm \in BpmInputs :
        LET validBpm == clampBpm(newBpm)
        IN  /\ clock.mounted
            /\ bpm' = validBpm
            /\ transportBpm' = validBpm
            /\ elapsedTime' =
                   IF isPlaying /\ elapsedTime # Null
                   THEN newElapsed(elapsedTime, bpm, validBpm)
                   ELSE elapsedTime
            /\ LET heard == dispatchEvents(Instances, <<validBpm>>, 0).insts
               IN  /\ useBpm' = heard.studio.bpm
                   /\ providerBpm' = heard.provider.bpm
            /\ tickBpm' = IF intervalRef THEN tickBpm ELSE validBpm
            /\ requestedBpm' = IF isPlaying THEN validBpm ELSE 0
            /\ lastOp' = Op("bpm", newBpm)
            /\ UNCHANGED <<polling, mixer, audioBlocks, created, playingBlocksRef,
                           audioPlayersRef, audioContext, waiting, isPlaying,
                           currentBeat, intervalRef, tickBlocks,
                           removedWhilePlaying, clock>>

\* handleBpmChange(newBpm) of StudioClient, the tempo field of the transport
\* bar: useBPM.setBpm, then the transport tempo set to the value as given.
HandleBpmChange ==
    \E newBpm \in BpmInputs :
        /\ audioContext = "running"
        /\ clock.mounted
        /\ LET heard == setBpm(Instances, "studio", newBpm).insts
           IN  /\ useBpm' = heard.studio.bpm
               /\ providerBpm' = heard.provider.bpm
        /\ transportBpm' = newBpm
        /\ requestedBpm' = IF isPlaying THEN clampBpm(newBpm) ELSE 0
        /\ lastOp' = Op("bpm", newBpm)
        /\ UNCHANGED <<polling, mixer, audioBlocks, created, playingBlocksRef,
                       audioPlayersRef, audioContext, waiting, isPlaying,
                       currentBeat, elapsedTime, intervalRef, tickBlocks,
                       removedWhilePlaying, bpm, tickBpm, clock>>

\* handleInputBlur of BPMSelector: setBpm of the BPMProvider instance.
SelectBpm ==
    \E newBpm \in BpmInputs :
        /\ audioContext = "running"
        /\ clock.mounted
        /\ LET heard == setBpm(Instances, "provider", newBpm).insts
           IN  /\ useBpm' = heard.studio.bpm
               /\ providerBpm' = heard.provider.bpm
        /\ transportBpm' = clampBpm(newBpm)
        /\ requestedBpm' = IF isPlaying THEN clampBpm(newBpm) ELSE 0
        /\ lastOp' = Op("select", newBpm)
        /\ UNCHANGED <<polling, mixer, audioBlocks, created, playingBlocksRef,
                       audioPlayersRef, audioContext, waiting, isPlaying,
                       currentBeat, elapsedTime, intervalRef, tickBlocks,
                       removedWhilePlaying, bpm, tickBpm, clock>>

\* seekToBeat(beat) of StudioClient: handleStopPlayback().
SeekToBeat ==
    \E beat \in SeekBeats :
        /\ audioContext = "running"
        /\ clock.mounted
        /\ isPlaying' = FALSE
        /\ currentBeat' = 0
        /\ elapsedTime' = Null
        /\ clock' = stopTimers(clock, intervalRef)
        /\ intervalRef' = FALSE
        /\ tickBlocks' = <<>>
        /\ tickBpm' = bpm
        /\ lastOp' = Op("seek", beat)
        /\ requestedBpm' = 0
        /\ UNCHANGED <<polling, mixer, audioBlocks, created, playingBlocksRef,
                       audioPlayersRef, audioContext, waiting,
                       removedWhilePlaying>>
        /\ UNCHANGED tempoVars

\* The animation frame requested by togglePlayback runs updateBeatPosition
\* of the render that made togglePlayback: its isPlaying is false, so it
\* returns at once and requests no further frame.
AnimationFrame ==
    /\ clock.frames > 0
    /\ clock' = [clock EXCEPT !.frames = @ - 1, !.animationFrameRef = "fired"]
    /\ UNCHANGED <<polling, mixer, audioBlocks, created, playingBlocksRef, audioPlayersRef,
                   audioContext, waiting, isPlaying, currentBeat, elapsedTime,
                   intervalRef, tickBlocks, removedWhilePlaying, bpm, tickBpm,
                   useBpm, providerBpm, transportBpm, requestedBpm, lastOp>>

\* StudioClient unmounts: the clean-up of the effect of usePlaybackControl.
Unmount ==
    /\ clock.mounted
    /\ clock' = unmountTimers(clock, intervalRef)
    /\ UNCHANGED <<polling, mixer, audioBlocks, created, playingBlocksRef, audioPlayersRef,
                   audioContext, waiting, isPlaying, currentBeat, elapsedTime,
                   intervalRef, tickBlocks, removedWhilePlaying, bpm, tickBpm,
                   useBpm, providerBpm, transportBpm, requestedBpm, lastOp>>

Init ==
    /\ mixer = InitMixer
    /\ audioBlocks = <<>>
    /\ created = {}
    /\ playingBlocksRef = <<>>
    /\ audioPlayersRef = [id \in Ids |-> "none"]
    /\ audioContext = "suspended"
    /\ waiting = <<>>
    /\ isPlaying = FALSE
    /\ currentBeat = 0
    /\ elapsedTime = Null
    /\ intervalRef = FALSE
    /\ tickBlocks = <<>>
    /\ removedWhilePlaying = {}
    /\ bpm = InitialBpm
    /\ tickBpm = InitialBpm
    /\ useBpm = InitialBpm
    /\ providerBpm = InitialBpm
    /\ transportBpm = InitialBpm
    /\ requestedBpm = 0
    /\ lastOp = Op("none", 0)
    /\ clock = InitClock
    /\ polling = InitPolling

Next ==
    \/ ContextStarted
    \/ ContextFailed
    \/ AddAudioBlock
    \/ PreloadDone
    \/ RemoveTrackBlocks
    \/ PlayAudioBlock
    \/ UpdateAudioBlock
    \/ LoadDone
    \/ LoadFailed
    \/ RunTimer
    \/ TogglePlayback
    \/ StopPlayback
    \/ Tick

Spec == Init /\ [][Next]_vars

\* ------------------------------------------------- polling a generation task
\* generateAudio got a task id: startPolling(taskId) schedules the interval.
StartPolling ==
    /\ polling.task = "none"
    /\ polling' = [polling EXCEPT !.task = "processing", !.interval = TRUE,
                                  !.pollingCount = 0]
    /\ UNCHANGED <<mixer, audioBlocks, created, playingBlocksRef,
                   audioPlayersRef, audioContext, waiting, isPlaying,
                   currentBeat, elapsedTime, intervalRef, tickBlocks,
                   removedWhilePlaying>>
    /\ UNCHANGED clockVars

\* The server finishes the task.
TaskFinishes ==
    /\ polling.task = "processing"
    /\ \E status \in {"completed", "failed"} :
          polling' = [polling EXCEPT !.task = status]
    /\ UNCHANGED <<mixer, audioBlocks, created, playingBlocksRef,
                   audioPlayersRef, audioContext, waiting, isPlaying,
                   currentBeat, elapsedTime, intervalRef, tickBlocks,
                   removedWhilePlaying>>
    /\ UNCHANGED clockVars

\* The interval callback, up to its await: count the attempt, give up at
\* MAX_POLLS, else send a status request.
PollTick ==
    /\ polling.interval
    /\ LET count == polling.pollingCount + 1
       IN  IF count >= MAX_POLLS
           THEN polling' = [polling EXCEPT !.pollingCount = count,
                                          !.interval = FALSE]
           ELSE /\ polling.fetches < MaxFetches
                /\ polling' = [polling EXCEPT !.pollingCount = count,
                                              !.fetches = @ + 1]
    /\ UNCHANGED <<mixer, audioBlocks, created, playingBlocksRef,
                   audioPlayersRef, audioContext, waiting, isPlaying,
                   currentBeat, elapsedTime, intervalRef, tickBlocks,
                   removedWhilePlaying>>
    /\ UNCHANGED clockVars

\* The rest of an interval callback, when its status request is answered:
\* a completed task with an audio URL adds a block (addAudioBlock, which
\* preloads it); completed, failed and errors clear the interval.
PollResponse ==
    /\ polling.fetches > 0
    /\ \E data \in Responses(polling.task) :
          LET answered == [polling EXCEPT
                              !.fetches = @ - 1,
                              !.interval = IF ends(data.status) THEN FALSE
                                           ELSE @]
          IN  IF data.status = "completed" /\ data.url
              THEN \E id \in Ids \ created :
                      /\ polling' = [answered EXCEPT !.added = @ + 1]
                      /\ created' = created \cup {id}
                      /\ audioBlocks' = Append(audioBlocks, Block(id))
                      /\ audioPlayersRef' =
                             IF Block(id).audioUrl /\ audioPlayersRef[id] = "none"
                             THEN [audioPlayersRef EXCEPT ![id] = "loading"]
                             ELSE audioPlayersRef
              ELSE /\ polling' = answered
                   /\ UNCHANGED <<audioBlocks, created, audioPlayersRef>>
    /\ UNCHANGED <<mixer, playingBlocksRef, audioContext, waiting, isPlaying,
                   currentBeat, elapsedTime, intervalRef, tickBlocks,
                   removedWhilePlaying>>
    /\ UNCHANGED clockVars

PollNext ==
    \/ StartPolling
    \/ TaskFinishes
    \/ PollTick
    \/ PollResponse

PollSpec == Init /\ [][PollNext]_vars

\* ------------------------------------------------------ the clock on its own
\* Runs of usePlaybackControl and the tempo handlers with no blocks.
ClockNext ==
    \/ ContextStarted
    \/ TogglePlayback
    \/ StopPlayback
    \/ Tick
    \/ ChangeBpm
    \/ HandleBpmChange
    \/ SelectBpm
    \/ SeekToBeat
    \/ AnimationFrame
    \/ Unmount

ClockSpec == Init /\ [][ClockNext]_vars

\* ---------------------------------------------- blocks started by the clock
\* Runs in which blocks are added and only the clock starts and stops them,
\* their audio loading or failing to load.
LoadNext ==
    \/ ContextStarted
    \/ AddAudioBlock
    \/ TogglePlayback
    \/ Tick
    \/ LoadDone
    \/ LoadFailed
    \/ RunTimer

LoadSpec == Init /\ [][LoadNext]_vars

\* ------------------------------------------- the AudioMixer class on its own
\* Runs of one AudioMixer under its public methods, with any arguments.
AddSource ==
    /\ Len(mixer.voices) < MaxMixerSources
    /\ \E id \in Ids, g \in GainValues \cup {DefaultGain}, f \in FadeInValues,
          s \in BOOLEAN, mu \in BOOLEAN :
          mixer' = addSource(mixer, id, FALSE, "started",
                             [gain |-> g, pan |-> 0, fadeIn |-> f,
                              solo |-> s, mute |-> mu])
    /\ UNCHANGED hookVars

RemoveSource ==
    /\ Len(mixer.timers) < MaxTimers
    /\ \E id \in Ids : mixer' = removeSource(mixer, id)
    /\ UNCHANGED hookVars

SetSourceGain ==
    /\ \E id \in Ids, g \in GainValues : mixer' = setSourceGain(mixer, id, g)
    /\ UNCHANGED hookVars

SetSourcePan ==
    /\ \E id \in Ids, p \in PanValues : mixer' = setSourcePan(mixer, id, p)
    /\ UNCHANGED hookVars

SetSourceMute ==
    /\ \E id \in Ids, b \in BOOLEAN : mixer' = setSourceMute(mixer, id, b)
    /\ UNCHANGED hookVars

SetSourceSolo ==
    /\ \E id \in Ids, b \in BOOLEAN : mixer' = setSourceSolo(mixer, id, b)
    /\ UNCHANGED hookVars

SetMute ==
    /\ \E b \in BOOLEAN : mixer' = setMute(mixer, b)
    /\ UNCHANGED hookVars

SetMasterVolume ==
    /\ \E vol \in VolumeValues : mixer' = setMasterVolume(mixer, vol)
    /\ UNCHANGED hookVars

MixerNext ==
    \/ AddSource
    \/ RemoveSource
    \/ RunTimer
    \/ SetSourceGain
    \/ SetSourcePan
    \/ SetSourceMute
    \/ SetSourceSolo
    \/ SetMute
    \/ SetMasterVolume

MixerSpec == Init /\ [][MixerNext]_vars

\* playAudioFile(url, id, options) of useAudioMixer with the options
\* playAudioBlock passes: a new player, added to the mixer while it loads.
PlayAudioFile ==
    /\ Len(mixer.voices) < MaxMixerSources
    /\ \E id \in Ids :
          mixer' = addSource(mixer, id, FALSE, "loading", PlayOptions)
    /\ UNCHANGED hookVars

\* Runs of one mixer under the calls useAudioBlockManager makes to start and
\* stop sources, and the clean-ups.
StopNext ==
    \/ PlayAudioFile
    \/ LoadDone
    \/ RemoveSource
    \/ RunTimer

StopSpec == Init /\ [][StopNext]_vars

\* ------------------------------------------------------------ observations
\* A stop was issued for source v and its clean-up has not run yet.
stopIssued(m, v) == \E i \in 1..Len(m.timers) : m.timers[i] = v

\* Source v is the one the active-source map holds for its id.
inMap(m, v) == MapGet(m.activeSources, m.voices[v].id) = v

\* The node of source v reaches the bus: node -> gain -> panner -> bus.
connected(m, v) == m.voices[v].srcConn /\ m.voices[v].busConn

\* A live voice: connected, no stop issued (its audio loading or started).
live(m, v) == connected(m, v) /\ ~stopIssued(m, v)

\* A playing voice: live and its audio started.
playingVoice(m, v) == live(m, v) /\ m.voices[v].play = "started"

liveVoices(m, id) == {v \in 1..Len(m.voices) : m.voices[v].id = id /\ live(m, v)}

liveIds(m) == {id \in Ids : liveVoices(m, id) # {}}

underPlayhead(blocks, beat) ==
    {blocks[i].id : i \in {j \in 1..Len(blocks) : inRange(blocks[j], beat)}}

\* Sources connected to the bus that the map does not hold.
orphans(m) == {v \in 1..Len(m.voices) : m.voices[v].busConn /\ ~inMap(m, v)}

\* Every pending clean-up runs, in order.
RECURSIVE drain(_)
drain(m) == IF m.timers = <<>> THEN m ELSE drain(runTimer(m))

\* Every value a JS Set of block ids can have.
PlayingSets ==
    {<<>>} \cup {<<a>> : a \in Ids} \cup
        {<<a, b>> : <<a, b>> \in {p \in Ids \X Ids : p[1] # p[2]}}

\* ------------------------------------------------------------------- claims
\* C1: at most one live voice per block at any time: whatever the interleaving
\* of ticks, playAudioBlock calls (two overlapping ones for one id included)
\* and stopAudioBlock calls, the mixer holds at most one connected source, for
\* which no stop was issued, for each block id.
C1_OneVoicePerBlock ==
    \A id \in Ids : Cardinality(liveVoices(mixer, id)) <= 1

\* C2: after every scheduler tick the blocks that have a voice (loading or
\* started, no stop issued) are exactly the blocks whose range
\* [start, start + duration) contains the current beat.
C2_TickReconciles ==
    [][Tick => liveIds(mixer)' = underPlayhead(audioBlocks, currentBeat)']_vars

\* C3: when the clock is stopped (stopPlayback) every voice is cancelled:
\* after the stop no voice remains live (playing or loading towards playing).
C3_StopCancelsVoices ==
    [][StopPlayback => liveIds(mixer)' = {}]_vars

\* C4: a stop issued for a block after its start was requested and before the
\* start took effect (audio context initialising, or audio loading) cancels
\* the start: the voice of that start never plays.
C4_StopCancelsPendingStart ==
    \A v \in 1..Len(mixer.voices) :
        mixer.voices[v].cancelled => ~playingVoice(mixer, v)

\* C5: once a block was removed while its voice played, the voice is stopped
\* by the next tick and no tick starts a voice for it: after every tick the
\* removed block has no live voice.
C5_RemovedBlockStaysSilent ==
    [][Tick => liveIds(mixer)' \cap removedWhilePlaying' = {}]_vars

\* C6: every voice a stop is issued for is disposed by its clean-up, and the
\* clean-up leaves no voice connected to the bus while absent from the map:
\* a clean-up never adds to the sources connected but not in the map.
C6_CleanupLeavesNoOrphan ==
    [][RunTimer => Cardinality(orphans(mixer)') <= Cardinality(orphans(mixer))]_vars

\* C7: stopping is idempotent.  From every reachable mixer state, and with any
\* playingBlocksRef, removeSource(id) twice, and stopAudioBlock(id) twice, lead
\* once the clean-ups have run to the same state (active-source map, bus gain
\* target, playingBlocksRef) as calling it once; for an id with no source
\* removeSource changes nothing.
C7_StopIdempotent ==
    \A id \in Ids :
        /\ drain(removeSource(removeSource(mixer, id), id)) =
               drain(removeSource(mixer, id))
        /\ LET e == [mixer |-> mixer, playing |-> <<id>>,
                     waiting |-> <<>>, micro |-> <<>>]
               once == stopAudioBlock(e, id)
               twice == stopAudioBlock(once, id)
           IN  /\ drain(twice.mixer) = drain(once.mixer)
               /\ twice.playing = once.playing
        /\ \A p \in PlayingSets :
               LET e == [mixer |-> InitMixer, playing |-> p,
                         waiting |-> <<>>, micro |-> <<>>]
               IN  stopAudioBlock(stopAudioBlock(e, id), id) = stopAudioBlock(e, id)
        /\ ~MapHas(mixer.activeSources, id) => removeSource(mixer, id) = mixer

\* A state in which removeSource was called twice for a source before its
\* clean-up ran, while the map holds two sources (the bus gain depends on it).
C7_Witness ==
    /\ Len(mixer.activeSources) = 2
    /\ \E i, j \in 1..Len(mixer.timers) : i # j /\ mixer.timers[i] = mixer.timers[j]

\* C8: solo law.  In every state reached by addSource, removeSource,
\* setSourceGain, setSourceMute, setSourceSolo and setMute, if an active
\* source has solo = true then every active source with solo = false has
\* target gain 0.
C8_SoloLaw ==
    anySolo(mixer) =>
        \A v \in MapValues(mixer.activeSources) :
            ~mixer.voices[v].solo => mixer.voices[v].target = 0

\* C9: while the mixer is muted every active source has target gain 0, the
\* sources added or re-levelled during the mute included.
C9_MuteLaw ==
    mixer.muted =>
        \A v \in MapValues(mixer.activeSources) : mixer.voices[v].target = 0

\* C10: mute round trip.  From every reachable unmuted mixer state,
\* setMute(true) then setMute(false) leaves the stored settings (gain, pan,
\* mute, solo) of every source as they were and returns every source's target
\* gain to the value it had before.
C10_MuteRoundTrip ==
    ~mixer.muted =>
        LET after == setMute(setMute(mixer, TRUE), FALSE)
        IN  \A v \in MapValues(mixer.activeSources) :
                /\ after.voices[v].gain = mixer.voices[v].gain
                /\ after.voices[v].pan = mixer.voices[v].pan
                /\ after.voices[v].mute = mixer.voices[v].mute
                /\ after.voices[v].solo = mixer.voices[v].solo
                /\ after.voices[v].target = mixer.voices[v].target

\* The gain a source reaches the output with, over the master gain: source
\* target (hundredths) times bus gain (thousandths).
compositeOverMaster(m, v) == m.voices[v].target * m.mixingBus

\* C11: gain ceiling.  For every active source in every reachable state the
\* composite gain (target gain x bus gain x master gain) is at least 0 and at
\* most the master gain, whatever gain was passed to addSource or
\* setSourceGain and whatever volume to setMasterVolume.
C11_GainCeiling ==
    \A v \in MapValues(mixer.activeSources) :
        /\ compositeOverMaster(mixer, v) * mixer.masterOutput >= 0
        /\ compositeOverMaster(mixer, v) * mixer.masterOutput <=
               100 * 1000 * mixer.masterOutput

\* The beats a tick may add to the reported position: at least none, at most
\* what the time since the previous report is worth at the fastest tempo
\* (one hundredth of a beat allowed for rounding).
withinOneTick(before, after, ms) ==
    /\ after - before >= 0 - 1
    /\ after - before <= totalBeats(ms, MAX_BPM) + 1

\* C12: tempo is clamped, never rejected.  After any tempo requests, with any
\* values and through any entry point, every stored tempo (the clock's bpm,
\* the bpm of useBPM, the transport tempo) lies in [20, 300].
C12_TempoClamped ==
    /\ bpm >= MIN_BPM /\ bpm <= MAX_BPM
    /\ useBpm >= MIN_BPM /\ useBpm <= MAX_BPM
    /\ transportBpm >= MIN_BPM /\ transportBpm <= MAX_BPM

\* C13: tempo continuity.  The beat reported by the first tick after a tempo
\* change differs from the beat reported by the last tick before it by less
\* than one tick's worth of beats.
C13_TempoContinuity ==
    [][(Tick /\ lastOp.op = "bpm") =>
          withinOneTick(currentBeat, currentBeat', elapsedTime' - elapsedTime)]_vars

\* C14: a tempo change takes effect at once.  After the tempo was set to b
\* during playback, from one tick to the next the reported beat advances at
\* b/60 beats per second of wall-clock time (one hundredth of a beat allowed
\* for rounding).
C14_TempoTakesEffect ==
    [][(Tick /\ lastOp.op = "tick" /\ requestedBpm # 0) =>
          LET advance == currentBeat' - currentBeat
              due == totalBeats(elapsedTime' - elapsedTime, requestedBpm)
          IN  advance - due <= 1 /\ due - advance <= 1]_vars

\* C15: pause/resume continuity.  The first beat reported after playback is
\* resumed continues from the beat at which it was paused: the position does
\* not jump.
C15_ResumeContinuity ==
    [][(Tick /\ lastOp.op = "play") =>
          withinOneTick(currentBeat, currentBeat', elapsedTime' - elapsedTime)]_vars

\* C16: after seek(b) the current beat is b and the running state is what it
\* was before the seek.
C16_SeekSetsBeat ==
    [][SeekToBeat =>
          (currentBeat' = lastOp'.arg /\ isPlaying' = isPlaying)]_vars

\* ------------------------------------------------------------ load failures
\* The sources whose audio fails to load in the step.
failing ==
    {v \in 1..Len(mixer.voices) :
        /\ mixer.voices[v].play = "loading"
        /\ v <= Len(mixer'.voices)
        /\ mixer'.voices[v].play = "failed"}

\* The sources whose audio is no longer loading after the step.
loaded ==
    {v \in 1..Len(mixer.voices) :
        /\ mixer.voices[v].play = "loading"
        /\ v <= Len(mixer'.voices)
        /\ mixer'.voices[v].play # "loading"}

\* C17: a load failure leaves no voice behind.  When the audio of a block
\* fails to load, its voice is disposed: it is no longer among the active
\* sources and its block is no longer in the playing set.
C17_LoadFailureDisposes ==
    [][LoadFailed =>
          \A v \in failing :
              /\ ~inMap(mixer', v)
              /\ ~connected(mixer', v)
              /\ ~SetHas(playingBlocksRef', mixer.voices[v].id)]_vars

\* C18: failure isolation.  A load failure of one source leaves every other
\* source, the active-source map, the bus gain and the playing set as they
\* were, and a tick that runs while a failed source is around still starts
\* every block under the playhead that is not playing.
C18_FailureIsolation ==
    /\ [][LoadFailed =>
             /\ Len(mixer'.voices) = Len(mixer.voices)
             /\ \A w \in (1..Len(mixer.voices)) \ failing :
                    /\ mixer'.voices[w] = mixer.voices[w]
                    /\ compositeOverMaster(mixer', w) = compositeOverMaster(mixer, w)
             /\ mixer'.activeSources = mixer.activeSources
             /\ mixer'.mixingBus = mixer.mixingBus
             /\ mixer'.timers = mixer.timers
             /\ playingBlocksRef' = playingBlocksRef]_vars
    /\ [][(/\ Tick
           /\ audioContext = "running"
           /\ \E v \in 1..Len(mixer.voices) : mixer.voices[v].play = "failed") =>
             \A id \in underPlayhead(tickBlocks, currentBeat') :
                 /\ SetHas(playingBlocksRef', id)
                 /\ ~SetHas(playingBlocksRef, id) => liveVoices(mixer', id) # {}]_vars

\* A failed source next to a playing source of another block that was created
\* after it.
C18_Witness ==
    \E v, w \in 1..Len(mixer.voices) :
        /\ v < w
        /\ mixer.voices[v].play = "failed"
        /\ mixer.voices[w].id # mixer.voices[v].id
        /\ playingVoice(mixer, w)

\* C19: a start requested while the audio is loading is not dropped.  When
\* the load of a source succeeds and no stop was issued for it since the
\* start was requested, the source plays.
C19_StartWhileLoadingKept ==
    [][LoadDone =>
          \A v \in loaded :
              (~stopIssued(mixer, v) /\ ~mixer.voices[v].cancelled) =>
                  playingVoice(mixer', v)]_vars

\* A source whose audio was loaded by playAudioFile plays, while the
\* preloaded player of its block is still loading.
C19_Witness ==
    \E v \in 1..Len(mixer.voices) :
        /\ ~mixer.voices[v].shared
        /\ playingVoice(mixer, v)
        /\ audioPlayersRef[mixer.voices[v].id] = "loading"

\* C20: a change of a block's audio replaces its voice.  After
\* updateAudioBlock with a new audioUrl every voice the block had is
\* destroyed, a new voice exists for a block that had one, and no source that
\* was started, failed or disposed is loading again.
C20_UpdateReplacesVoice ==
    [][\A id \in Ids :
          (/\ UpdateAudioBlock
           /\ LET u == updateAudioBlock(mixer, audioPlayersRef, audioBlocks, id)
              IN  mixer' = u.mixer /\ audioPlayersRef' = u.players) =>
              /\ \A v \in liveVoices(mixer, id) : ~live(mixer', v)
              /\ liveVoices(mixer, id) # {} =>
                     \E w \in liveVoices(mixer', id) : w > Len(mixer.voices)
              /\ \A v \in 1..Len(mixer.voices) :
                     mixer.voices[v].play # "loading" =>
                         mixer'.voices[v].play # "loading"]_vars

\* ------------------------------------------------------------ the two passes
\* The calls the tick of the step makes, in order.
tickLog ==
    checkBlocksForPlayback(Engine, tickBlocks, currentBeat', currentBeat' - 1,
                           audioContext).log

commanded(log, cmd) == {log[i].id : i \in {j \in 1..Len(log) : log[j].cmd = cmd}}

\* C21: within one tick (one call of checkBlocksForPlayback) every stop
\* command of the tick is made before any start command of the tick.
C21_StopsBeforeStarts ==
    [][Tick =>
          \A i, j \in 1..Len(tickLog) :
              (tickLog[i].cmd = "stop" /\ tickLog[j].cmd = "start") => i < j]_vars

\* A state in which the interval can fire a tick that stops a block and
\* starts another.
C21_Witness ==
    /\ intervalRef
    /\ elapsedTime # Null
    /\ \E d \in 0..MaxStep :
           LET beat == totalBeats(elapsedTime + d * TimeUnit, tickBpm)
               log == checkBlocksForPlayback(Engine, tickBlocks, beat, beat - 1,
                                             audioContext).log
           IN  /\ elapsedTime + d * TimeUnit <= MaxElapsed * TimeUnit
               /\ commanded(log, "stop") # {}
               /\ commanded(log, "start") # {}

\* The playing blocks the tick must stop: those no longer in the list, and
\* those whose range does not contain the beat.
mustStop(blocks, playing, beat) ==
    {id \in Ids :
        /\ SetHas(playing, id)
        /\ \/ find(blocks, id) = {}
           \/ \E b \in find(blocks, id) : ~inRange(b, beat)}

\* C22: stop pass.  In every tick each block of the playing set whose range
\* does not contain the current beat, or whose block no longer exists, gets a
\* stop command in that tick, and no block whose range contains the current
\* beat gets one.
C22_StopPass ==
    [][Tick =>
          commanded(tickLog, "stop") =
              mustStop(audioBlocks, playingBlocksRef, currentBeat')]_vars

\* The blocks the tick must start: those under the playhead with no live
\* voice.
mustStart(blocks, m, beat) ==
    {id \in underPlayhead(blocks, beat) : liveVoices(m, id) = {}}

\* C23: start pass.  In every tick each block whose range contains the
\* current beat and which has no live voice gets a start command in that
\* tick, whether or not the playhead crossed its start in that tick, and
\* several blocks may be started in one tick.
C23_StartPass ==
    [][Tick =>
          mustStart(audioBlocks, mixer, currentBeat') \subseteq
              commanded(tickLog, "start")]_vars

\* ------------------------------------------------------------- the bus gain
\* C24: the bus gain tracks the voice count.  After every mixer operation
\* (addSource, the deferred clean-up of removeSource) the bus gain target is
\* g(N) for N the number of active sources: 1 for N <= 1, and
\* 1 / (1 + ln(N) * 0.25) for N > 1.
C24_BusGainTracksCount ==
    /\ mixer.mixingBus = MixingGainTarget(Len(mixer.activeSources))
    /\ Len(mixer.activeSources) <= 1 => mixer.mixingBus = InitialBusGain
    /\ Len(mixer.activeSources) > 1 => mixer.mixingBus < InitialBusGain

\* Two active sources share the bus, one of them stopped and waiting for its
\* clean-up.
C24_Witness ==
    /\ Len(mixer.activeSources) = 2
    /\ mixer.timers # <<>>

\* ---------------------------------------------------- the timers of the clock
\* C25: no orphaned clock timers.  At any time at most one backup interval
\* and at most one animation frame are scheduled for the clock, and whenever
\* the clock is not running (after pause, after stop, after unmount) none is.
C25_NoOrphanTimers ==
    /\ clock.intervals <= 1
    /\ clock.frames <= 1
    /\ (~isPlaying \/ ~clock.mounted) =>
           (clock.intervals = 0 /\ clock.frames = 0)

\* The hook was unmounted while playback ran, before the animation frame
\* requested on start had run.
C25_Witness ==
    /\ ~clock.mounted
    /\ isPlaying
    /\ lastOp.op = "play"

\* ------------------------------------------------- clean-ups and the playing set
\* C26: the deferred clean-up of removeSource(id) removes only the source that
\* was stopped.  A source added under the same id before the clean-up runs,
\* and for which no stop was issued, is still in the active-source map after
\* the clean-up, where a later removeSource(id) finds it.
C26_CleanupSparesNewSource ==
    [][RunTimer =>
          \A id \in Ids :
              LET v == MapGet(mixer.activeSources, id)
              IN  (v # 0 /\ ~stopIssued(mixer, v)) =>
                      MapHas(mixer'.activeSources, id)]_vars

\* The ids for which the mixer holds a source that was not asked to stop.
heldIds(m) ==
    {id \in Ids :
        LET v == MapGet(m.activeSources, id)
        IN  v # 0 /\ ~stopIssued(m, v)}

\* C27: the playing set and the mixer stay consistent.  In every reachable
\* state a block id is in playingBlocksRef exactly when the mixer of the
\* block manager holds a source for that id that was not asked to stop.
C27_PlayingSetMatchesMixer ==
    \A id \in Ids : SetHas(playingBlocksRef, id) <=> id \in heldIds(mixer)

\* ------------------------------------------------------------ audible again
\* C28: when no active source is soloed and the mixer is not muted, every
\* active source with mute = false (and no stop issued) has target gain equal
\* to its stored gain; in particular the remaining sources are audible again
\* after a soloed source was removed.
C28_AudibleWithoutSolo ==
    (~anySolo(mixer) /\ ~mixer.muted) =>
        \A v \in MapValues(mixer.activeSources) :
            (~mixer.voices[v].mute /\ ~stopIssued(mixer, v)) =>
                mixer.voices[v].target = mixer.voices[v].gain

\* ---------------------------------------------------- the tempo notification
\* C29: the tempo notification converges.  After setBpm(x) on a mounted
\* useBPM instance (StudioClient's through handleBpmChange, BPMProvider's
\* through the BPMSelector) the bpm of every mounted instance is x clamped to
\* [20, 300], and handling the event dispatches no further event: the
\* exchange is one event long.
C29_TempoNotificationConverges ==
    [][\A who \in {"studio", "provider"} :
          ((IF who = "studio" THEN HandleBpmChange ELSE SelectBpm) =>
              /\ useBpm' = clampBpm(lastOp'.arg)
              /\ providerBpm' = clampBpm(lastOp'.arg)
              /\ setBpm(Instances, who, lastOp'.arg).events = 1)]_vars

\* After setBpm of the BPMProvider instance with a tempo above the maximum
\* both instances hold the maximum.
C29_Witness ==
    /\ lastOp.op = "select"
    /\ lastOp.arg > MAX_BPM
    /\ useBpm = MAX_BPM
    /\ providerBpm = MAX_BPM

\* ------------------------------------------------------- the generation task
\* C30: a generation task adds at most one block to the timeline.  Once a
\* poll has seen the task completed, failed or errored, or MAX_POLLS attempts
\* have been made, no later poll response for the task adds another block,
\* one in flight when the interval was cleared included.
C30_AtMostOneBlock == polling.added <= 1

====
